---- MODULE Spec2Model ----
(***************************************************************************)
(* Call session orchestrator of the Vani voice agent.                      *)
(*                                                                         *)
(* The module models src/app/api/retell_ws.py (the websocket handler       *)
(* retell_llm_ws that main.py mounts), with the collaborators it calls:    *)
(* get_ai_response (src/app/services/llm.py), the grievances table         *)
(* (src/app/models/grievance.py) and the dashboard hub (src/app/ws.py).    *)
(* Every await of the handler is a step boundary; the code between two     *)
(* awaits runs atomically on the asyncio event loop.                       *)
(*                                                                         *)
(* Texts are tuples of one-character strings so that lower(), strip(),     *)
(* upper(), slicing and the substring test are computed, not assumed.      *)
(***************************************************************************)
EXTENDS Integers, Sequences, FiniteSets, TLC

(***************************************************************************)
(* Bounds of the model                                                     *)
(***************************************************************************)
\* frames the telephony platform sends, and dashboards that connect, when one
\* call is served
MaxFrames == 2
\* frames the telephony platform sends when two calls are served at once
MaxFramesTwoCalls == 1
\* frames the telephony platform sends to a call that is already long
MaxFramesLongCall == 2
\* frames the platform sends, and dashboards that connect, when a dashboard
\* watches from the start
MaxFramesDashboard == 2
\* frames that may wait unread on one connection
MaxInbox == 2
\* complaints that may be open in one area at a time
MaxAreaComplaints == 11
\* plain turns the call has already had when the long-call specification starts
WarmTurns == 10

Conns == {"w1", "w2"}
\* dashboard websockets
Observers == {"d1", "d2"}
CallIds == {"A", "B"}
\* the call_id a connection may carry: w1 opens call A, w2 joins it or opens B
CallIdsOf(c) == IF c = "w1" THEN {"A"} ELSE CallIds
Timestamps == {11, 12}

(***************************************************************************)
(* Characters and strings                                                  *)
(***************************************************************************)
UpperChars == <<"A","B","C","D","E","F","G","H","I","J","K","L","M",
                "N","O","P","Q","R","S","T","U","V","W","X","Y","Z">>
LowerChars == <<"a","b","c","d","e","f","g","h","i","j","k","l","m",
                "n","o","p","q","r","s","t","u","v","w","x","y","z">>

\* str.lower() on one character
LowerChar(ch) ==
    IF \E i \in 1..26 : UpperChars[i] = ch
    THEN LowerChars[CHOOSE i \in 1..26 : UpperChars[i] = ch]
    ELSE ch

\* str.upper() on one character
UpperChar(ch) ==
    IF \E i \in 1..26 : LowerChars[i] = ch
    THEN UpperChars[CHOOSE i \in 1..26 : LowerChars[i] = ch]
    ELSE ch

lower(s) == [i \in 1..Len(s) |-> LowerChar(s[i])]
upper(s) == [i \in 1..Len(s) |-> UpperChar(s[i])]

RECURSIVE lstrip(_)
lstrip(s) == IF s # <<>> /\ Head(s) = " " THEN lstrip(Tail(s)) ELSE s

RECURSIVE rstrip(_)
rstrip(s) ==
    IF s # <<>> /\ s[Len(s)] = " " THEN rstrip(SubSeq(s, 1, Len(s) - 1)) ELSE s

\* str.strip()
strip(s) == rstrip(lstrip(s))

\* Python's  w in t  on strings
IsSubstring(w, t) ==
    \E i \in 1..(Len(t) - Len(w) + 1) : SubSeq(t, i, i + Len(w) - 1) = w

(***************************************************************************)
(* Confirmation detector and transcript normaliser                         *)
(***************************************************************************)
CONFIRM_WORDS ==
    << <<"y","e","s">>, <<"y","e","a","h">>, <<"y","e","p">>,
       <<"p","l","e","a","s","e">>, <<"g","o"," ","a","h","e","a","d">>,
       <<"c","o","n","f","i","r","m">>, <<"s","u","r","e">>,
       <<"o","k","a","y">>, <<"o","k">> >>

\* a detector that compares the text as it was said
detect_confirmation_cased(text) ==
    \E i \in 1..Len(CONFIRM_WORDS) : IsSubstring(CONFIRM_WORDS[i], text)

\* lines 28-31
detect_confirmation(text) ==
    LET text_lower == lower(text)
    IN  \E i \in 1..Len(CONFIRM_WORDS) : IsSubstring(CONFIRM_WORDS[i], text_lower)

\* the most recent user item of the transcript, stripped; "" when none
RECURSIVE extract_latest_user_message(_)
extract_latest_user_message(transcript) ==
    IF transcript = <<>> THEN <<>>
    ELSE LET item == transcript[Len(transcript)]
         IN  IF item.role = "user" THEN strip(item.content)
             ELSE extract_latest_user_message(
                      SubSeq(transcript, 1, Len(transcript) - 1))

\* a transcript item that is a JSON object (a dict, which has .get); any other
\* JSON value is written [scalar |-> ...]
IsObject(item) == "scalar" \notin DOMAIN item

\* line 23: item.get raises AttributeError when the loop reaches an item that
\* is not an object before it has found a user item
RECURSIVE extract_raises(_)
extract_raises(transcript) ==
    IF transcript = <<>> THEN FALSE
    ELSE LET item == transcript[Len(transcript)]
         IN  IF ~IsObject(item) THEN TRUE
             ELSE IF item.role = "user" THEN FALSE
             ELSE extract_raises(SubSeq(transcript, 1, Len(transcript) - 1))

\* utterances the platform transcribes
TextOK == <<"O","K">>
TextNo == <<"n","o"," ">>
TextBlank == <<" ">>
TextHi == <<"h","i">>

Transcripts ==
    { << [role |-> "user", content |-> TextBlank] >>,
      << [role |-> "user", content |-> TextNo] >>,
      << [role |-> "user", content |-> TextOK],
         [role |-> "agent", content |-> TextHi] >> }

(***************************************************************************)
(* Ticket identifiers                                                      *)
(***************************************************************************)
\* values of uuid.uuid4().hex (shortened to eight digits; two of them agree
\* on the first six)
UuidHex ==
    { <<"3","f","a","0","1","c","9","e">>,
      <<"3","f","a","0","1","c","7","7">>,
      <<"b","0","0","4","d","2","e","1">> }

TicketPrefix == <<"D","E","L","-">>
TicketSuffixLen == 6

\* f"DEL-{uuid.uuid4().hex[:6].upper()}"
make_ticket_id(hex) == TicketPrefix \o upper(SubSeq(hex, 1, TicketSuffixLen))

NoTicket == <<>>

(***************************************************************************)
(* Spoken texts                                                            *)
(***************************************************************************)
\* a text is a tuple of strings: a fixed sentence is one element, an embedded
\* ticket_id contributes its characters; the empty text is the empty tuple
EmptyText == <<>>
Greeting == <<"Namaste, I am Vani from the Delhi Government.">>
LlmText == <<"(text composed by the model)">>
LlmApology == <<"I apologize, I'm having technical difficulties.">>
RepeatPrompt == <<"I'm sorry, could you please repeat that?">>
RegisterApology == <<"I apologize, but I'm having trouble registering your complaint.">>

\* lines 153-158
Registered(ticket_id) ==
    <<"Your complaint has been registered. Your ticket number is ">>
    \o ticket_id \o <<". Is there anything else?">>

(***************************************************************************)
(* Reasoning service                                                       *)
(***************************************************************************)
RequiredFields == {"name", "issue", "location", "contact", "department"}

\* the arguments string of a tool call: whether json.loads accepts it, the
\* keys of the object it yields, and the issue it describes
ArgsFull(issue) == [json_ok |-> TRUE, keys |-> RequiredFields, issue |-> issue]
ArgsNoContact(issue) ==
    [json_ok |-> TRUE, keys |-> RequiredFields \ {"contact"}, issue |-> issue]
ArgsMalformed == [json_ok |-> FALSE, keys |-> {}, issue |-> ""]

Register(args) == [name |-> "register_grievance", arguments |-> args]
OtherTool == [name |-> "check_status", arguments |-> ArgsFull("water")]

ToolCallLists ==
    { <<>>,
      << Register(ArgsFull("water")) >>,
      << Register(ArgsFull("road")) >>,
      << Register(ArgsNoContact("water")) >>,
      << Register(ArgsMalformed) >>,
      << OtherTool >>,
      << Register(ArgsFull("water")), Register(ArgsFull("water")) >>,
      << Register(ArgsFull("water")), Register(ArgsMalformed) >>,
      << Register(ArgsMalformed), Register(ArgsFull("road")) >> }

\* what the chat completion call can do: raise, or return a message
ModelOutputs ==
    [raises : {FALSE}, content : {EmptyText, <<" ">>, LlmText}, tool_calls : ToolCallLists]
    \cup {[raises |-> TRUE, content |-> EmptyText, tool_calls |-> <<>>]}

get_ai_response(out) ==
    IF out.raises
    THEN [content |-> LlmApology, tool_calls |-> <<>>]
    ELSE [content |-> IF strip(out.content) = EmptyText /\ out.tool_calls = <<>>
                      THEN RepeatPrompt ELSE strip(out.content),
          tool_calls |-> out.tool_calls]

(***************************************************************************)
(* History                                                                 *)
(***************************************************************************)
HistoryCap == 20
HistoryKeep == 18

Entry(role, content) == [role |-> role, content |-> content]

\* h[:18], the slice taken from the wrong end
FirstN(h, n) == IF Len(h) <= n THEN h ELSE SubSeq(h, 1, n)

\* h[-18:]
LastN(h, n) == IF Len(h) <= n THEN h ELSE SubSeq(h, Len(h) - n + 1, Len(h))

\* lines 191-193
LimitHistory(h) == IF Len(h) > HistoryCap THEN LastN(h, HistoryKeep) ELSE h


(***************************************************************************)
(* State                                                                   *)
(***************************************************************************)
VARIABLES
    pc,                    \* where each connection's handler stands
    call_id,               \* the path parameter of each connection
    CONVERSATION_HISTORY,  \* call_id -> history, the module-level dict
    locals,                \* the handler's local variables of the turn
    inbox,                 \* frames on the wire, not yet read by receive_json
    outbox,                \* frames the handler has sent, in order
    grievances,            \* rows of the grievances table, in insert order
    broadcasts,            \* events handed to manager.broadcast, in order
    next_response_id,      \* the platform's response_id counter
    budget,                \* frames the platform may still send
    observers,             \* where each dashboard websocket stands
    active_connections,    \* manager.active_connections, the list of the hub
    lock,                  \* manager.lock: "free" or the task that holds it
    pushes,                \* the send_json calls of the broadcasts, in order
    matches,               \* what the index returned for the query in progress
    context,               \* what get_context returned for it
    area_hotspots,         \* the committed rows of the area_hotspots table
    area_grievances,       \* open complaints stored for each area
    row_locks              \* areas whose row a transaction in progress has locked

\* the state of the dashboard hub (src/app/ws.py)
hub == <<observers, active_connections, lock, pushes>>

\* the state of the context provider (src/app/services/rag.py) and of the
\* area statistics (src/area_hotspot_service.py, src/manager_api.py)
aside == <<matches, context, area_hotspots, area_grievances, row_locks>>

vars == <<pc, call_id, CONVERSATION_HISTORY, locals, inbox, outbox,
          grievances, broadcasts, next_response_id, budget,
          observers, active_connections, lock, pushes,
          matches, context, area_hotspots, area_grievances, row_locks>>

NoCall == "-"

\* locals of retell_llm_ws between two turns (they are all assigned again
\* before they are read, so the values of a finished turn are dropped)
NoLocals ==
    [response_id |-> 0, user_text |-> <<>>, user_confirmed |-> FALSE,
     spoken_text |-> EmptyText, tool_calls |-> <<>>, ticket_id |-> NoTicket,
     caught |-> "none", connections |-> <<>>, pushed |-> 0]

\* positions inside a turn
TurnPositions == {"context", "reasoning", "tools", "broadcast", "replied"}

\* dict operations
Has(k) == k \in DOMAIN CONVERSATION_HISTORY
Store(d, k, v) == [x \in DOMAIN d \cup {k} |-> IF x = k THEN v ELSE d[x]]
\* a teardown that empties the store
PopAll(d, k) == <<>>

\* CONVERSATION_HISTORY.pop(call_id, None)
Pop(d, k) == [x \in DOMAIN d \ {k} |-> d[x]]

\* frames
ReplyFrame(rid, text) ==
    [response_id |-> rid, content |-> text,
     content_complete |-> TRUE, end_call |-> FALSE]
\* a keepalive answered with the time of the answer
PingEchoNow(ts) == [interaction_type |-> "ping_pong", timestamp |-> 0]

\* lines 64-67: the frame sent back for a keepalive
PingEcho(ts) == [interaction_type |-> "ping_pong", timestamp |-> ts]

IsReply(f) == "response_id" \in DOMAIN f
IsPing(f) == f.interaction_type = "ping_pong"
IsTurnEvent(f) == f.interaction_type = "response_required"

\* lines 72-76 run through: data["response_id"] finds its key and
\* extract_latest_user_message does not raise
Readable(f) == "response_id" \in DOMAIN f /\ ~extract_raises(f.transcript)

\* the ticket_id column of the grievances table
TicketIds == {grievances[i].ticket_id : i \in 1..Len(grievances)}

\* a ticket_id column without the unique index
NoUniqueIndex(ticket_id) == FALSE

\* the unique index on ticket_id rejects a row whose ticket_id is stored
UniqueViolation(ticket_id) == ticket_id \in TicketIds

(***************************************************************************)
(* Initial states                                                          *)
(***************************************************************************)
\* the elements of a list
Elems(list) == {list[i] : i \in 1..Len(list)}

\* the hub when the dashboards of listed have connected in this order and
\* those in coming are still to come
Hub(coming, listed) ==
    /\ observers = [o \in Observers |->
                       IF o \in Elems(listed) THEN "open"
                       ELSE IF o \in coming THEN "new" ELSE "closed"]
    /\ active_connections = listed
    /\ lock = "free"
    /\ pushes = <<>>

\* no connection yet, the state of the handler's module after it is loaded;
\* the connections in open are still to come and the platform will send n
\* frames
Start(open, n) ==
    /\ pc = [c \in Conns |-> IF c \in open THEN "new" ELSE "closed"]
    /\ call_id = [c \in Conns |-> NoCall]
    /\ CONVERSATION_HISTORY = <<>>
    /\ locals = [c \in Conns |-> NoLocals]
    /\ inbox = [c \in Conns |-> <<>>]
    /\ outbox = [c \in Conns |-> <<>>]
    /\ grievances = <<>>
    /\ broadcasts = <<>>
    /\ next_response_id = 1
    /\ budget = n

\* areas the complaints name, by the name normalize_area_name leaves as it is
Areas == {"rohini sector 7", "dwarka"}

NoRow == [absent |-> TRUE]
NotReturned == [pending |-> TRUE]

\* no query of the context provider is in progress
NoQuery ==
    /\ matches = <<>>
    /\ context = NotReturned

\* the area_hotspots table as the migration created it, empty, and no
\* complaint stored
NoAreas ==
    /\ area_hotspots = [a \in Areas |-> NoRow]
    /\ area_grievances = [a \in Areas |-> 0]
    /\ row_locks = {}

Idle == NoQuery /\ NoAreas

\* one call; no dashboard has connected yet
Init == Start({"w1"}, MaxFrames) /\ Hub({"d1"}, <<>>) /\ Idle

\* two connections before any dashboard has connected, or one connection
\* while a dashboard watches
InitTwoCalls ==
    \/ Start(Conns, MaxFramesTwoCalls) /\ Hub({"d1"}, <<>>) /\ Idle
    \/ Start({"w2"}, MaxFramesTwoCalls) /\ Hub({}, <<"d1">>) /\ Idle

\* A call in progress: call A on w1 has had n turns in which the citizen said
\* "no <n>" and the reasoning service answered with plain text and no tool
\* call.  The history and the frames sent are the ones lines 54-57 and 84-193
\* produce for these turns.
Digits == <<"0","1","2","3","4","5","6","7","8","9">>
PlainUserText(i) == <<"n", "o", " ", Digits[((i \div 10) % 10) + 1], Digits[(i % 10) + 1]>>

RECURSIVE PlainHistory(_)
PlainHistory(n) ==
    IF n = 0 THEN << Entry("assistant", Greeting) >>
    ELSE LimitHistory(
             Append(Append(PlainHistory(n - 1), Entry("user", PlainUserText(n))),
                    Entry("assistant", LlmText)))

PlainOutbox(n) ==
    [i \in 1..(n + 1) |->
        IF i = 1 THEN ReplyFrame(0, Greeting) ELSE ReplyFrame(i - 1, LlmText)]

InProgress(coming, turns, n) ==
    /\ pc = [c \in Conns |-> IF c = "w1" THEN "receive"
                             ELSE IF c \in coming THEN "new" ELSE "closed"]
    /\ call_id = [c \in Conns |-> IF c = "w1" THEN "A" ELSE NoCall]
    /\ CONVERSATION_HISTORY = Store(<<>>, "A", PlainHistory(turns))
    /\ locals = [c \in Conns |-> NoLocals]
    /\ inbox = [c \in Conns |-> <<>>]
    /\ outbox = [c \in Conns |-> IF c = "w1" THEN PlainOutbox(turns) ELSE <<>>]
    /\ grievances = <<>>
    /\ broadcasts = <<>>
    /\ next_response_id = turns + 1
    /\ budget = n

\* the call in progress is the only one
CallInProgress ==
    InProgress({}, WarmTurns, MaxFramesLongCall) /\ Hub({"d1"}, <<>>) /\ Idle

\* a second connection arrives while the call in progress is one turn
\* longer, so that its next reply makes the history pass the cap; or that
\* call alone while a dashboard watches
InitSecondCall ==
    \/ InProgress({"w2"}, WarmTurns + 1, MaxFramesTwoCalls)
          /\ Hub({"d1"}, <<>>) /\ Idle
    \/ InProgress({}, WarmTurns + 1, MaxFramesTwoCalls)
          /\ Hub({}, <<"d1">>) /\ Idle

\* one call that starts while one dashboard watches and another is to come
InitDashboard ==
    Start({"w1"}, MaxFramesDashboard) /\ Hub({"d2"}, <<"d1">>) /\ Idle

\* a call from its start, or one that has already lasted WarmTurns turns
InitLongCall ==
    \/ Start({"w1"}, MaxFramesLongCall) /\ Hub({"d1"}, <<>>) /\ Idle
    \/ CallInProgress

(***************************************************************************)
(* The handler retell_llm_ws, one action per stretch between two awaits    *)
(***************************************************************************)
\* the handler without the finally block
FinallyWithoutPop(c) ==
    /\ CONVERSATION_HISTORY' = CONVERSATION_HISTORY
    /\ pc' = [pc EXCEPT ![c] = "closed"]
    /\ locals' = [locals EXCEPT ![c] = NoLocals]
    /\ inbox' = [inbox EXCEPT ![c] = <<>>]

\* lines 195-206: the except clauses and the finally block
Finally(c) ==
    /\ CONVERSATION_HISTORY' = Pop(CONVERSATION_HISTORY, call_id[c])
    /\ pc' = [pc EXCEPT ![c] = "closed"]
    /\ locals' = [locals EXCEPT ![c] = NoLocals]
    /\ inbox' = [inbox EXCEPT ![c] = <<>>]

\* lines 36-40: the handshake is accepted and the history initialised
Accept(c, k) ==
    /\ pc[c] = "new"
    /\ call_id' = [call_id EXCEPT ![c] = k]
    /\ CONVERSATION_HISTORY' = Store(CONVERSATION_HISTORY, k, <<>>)
    /\ pc' = [pc EXCEPT ![c] = "greeting"]
    /\ UNCHANGED <<locals, inbox, outbox, grievances, broadcasts,
                   next_response_id, budget, hub, aside>>

\* a handler that starts reading without having greeted
SkipGreeting(c) ==
    /\ pc[c] = "greeting"
    /\ outbox' = outbox
    /\ pc' = [pc EXCEPT ![c] = "greeted"]
    /\ UNCHANGED <<call_id, CONVERSATION_HISTORY, locals, inbox, grievances,
                   broadcasts, next_response_id, budget, hub, aside>>

\* lines 44-51: the greeting frame goes out
SendGreeting(c) ==
    /\ pc[c] = "greeting"
    /\ outbox' = [outbox EXCEPT ![c] = Append(@, ReplyFrame(0, Greeting))]
    /\ pc' = [pc EXCEPT ![c] = "greeted"]
    /\ UNCHANGED <<call_id, CONVERSATION_HISTORY, locals, inbox, grievances,
                   broadcasts, next_response_id, budget, hub, aside>>

\* lines 54-57: the greeting is appended (KeyError when the entry is gone)
AppendGreeting(c) ==
    /\ pc[c] = "greeted"
    /\ IF Has(call_id[c])
       THEN /\ CONVERSATION_HISTORY' =
                  [CONVERSATION_HISTORY EXCEPT
                      ![call_id[c]] = Append(@, Entry("assistant", Greeting))]
            /\ pc' = [pc EXCEPT ![c] = "receive"]
            /\ UNCHANGED <<locals, inbox>>
       ELSE Finally(c)
    /\ UNCHANGED <<call_id, outbox, grievances, broadcasts,
                   next_response_id, budget, hub, aside>>

\* lines 60-68: a keepalive frame is read and echoed
EchoPing(c) ==
    /\ pc[c] = "receive"
    /\ inbox[c] # <<>>
    /\ IsPing(Head(inbox[c]))
    /\ inbox' = [inbox EXCEPT ![c] = Tail(@)]
    /\ outbox' = [outbox EXCEPT ![c] = Append(@, PingEcho(Head(inbox[c]).timestamp))]
    /\ UNCHANGED <<pc, call_id, CONVERSATION_HISTORY, locals, grievances,
                   broadcasts, next_response_id, budget, hub, aside>>

\* lines 60-71: a frame that is neither a keepalive nor a turn event is read
\* and neither branch is taken
DropFrame(c) ==
    /\ pc[c] = "receive"
    /\ inbox[c] # <<>>
    /\ ~IsPing(Head(inbox[c]))
    /\ ~IsTurnEvent(Head(inbox[c]))
    /\ inbox' = [inbox EXCEPT ![c] = Tail(@)]
    /\ UNCHANGED <<pc, call_id, CONVERSATION_HISTORY, locals, outbox,
                   grievances, broadcasts, next_response_id, budget, hub, aside>>

\* lines 72-76 and 198-206: a turn event without response_id (KeyError) or
\* with a transcript item that is not an object (AttributeError) ends the
\* handler through the except clause
FrameError(c) ==
    /\ pc[c] = "receive"
    /\ inbox[c] # <<>>
    /\ IsTurnEvent(Head(inbox[c]))
    /\ ~Readable(Head(inbox[c]))
    /\ Finally(c)
    /\ UNCHANGED <<call_id, outbox, grievances, broadcasts,
                   next_response_id, budget, hub, aside>>

\* a handler that appends the utterance before it tests it
SkipTurnRecorded(c) ==
    /\ pc[c] = "receive"
    /\ inbox[c] # <<>>
    /\ IsTurnEvent(Head(inbox[c]))
    /\ Readable(Head(inbox[c]))
    /\ extract_latest_user_message(Head(inbox[c]).transcript) = <<>>
    /\ Has(call_id[c])
    /\ CONVERSATION_HISTORY' =
           [CONVERSATION_HISTORY EXCEPT
               ![call_id[c]] = Append(@, Entry("user", <<>>))]
    /\ inbox' = [inbox EXCEPT ![c] = Tail(@)]
    /\ UNCHANGED <<pc, call_id, locals, outbox,
                   grievances, broadcasts, next_response_id, budget, hub, aside>>

\* lines 71-80: a turn event without user text is skipped
SkipTurn(c) ==
    /\ pc[c] = "receive"
    /\ inbox[c] # <<>>
    /\ IsTurnEvent(Head(inbox[c]))
    /\ Readable(Head(inbox[c]))
    /\ extract_latest_user_message(Head(inbox[c]).transcript) = <<>>
    /\ inbox' = [inbox EXCEPT ![c] = Tail(@)]
    /\ UNCHANGED <<pc, call_id, CONVERSATION_HISTORY, locals, outbox,
                   grievances, broadcasts, next_response_id, budget, hub, aside>>

\* a handler that takes the newest waiting frame instead of the oldest
StartTurnNewestFirst(c) ==
    /\ pc[c] = "receive"
    /\ inbox[c] # <<>>
    /\ IsTurnEvent(inbox[c][Len(inbox[c])])
    /\ Readable(inbox[c][Len(inbox[c])])
    /\ LET data == inbox[c][Len(inbox[c])]
           user_text == extract_latest_user_message(data.transcript)
       IN  /\ user_text # <<>>
           /\ Has(call_id[c])
           /\ CONVERSATION_HISTORY' =
                  [CONVERSATION_HISTORY EXCEPT
                      ![call_id[c]] = Append(@, Entry("user", user_text))]
           /\ locals' = [locals EXCEPT ![c] =
                  [NoLocals EXCEPT !.response_id = data.response_id,
                                   !.user_text = user_text]]
           /\ inbox' = [inbox EXCEPT ![c] = SubSeq(@, 1, Len(@) - 1)]
           /\ pc' = [pc EXCEPT ![c] = "context"]
    /\ UNCHANGED <<call_id, outbox, grievances, broadcasts,
                   next_response_id, budget, hub, aside>>

\* lines 71-91: a turn event is read, the user text appended, and the
\* context provider called
StartTurn(c) ==
    /\ pc[c] = "receive"
    /\ inbox[c] # <<>>
    /\ IsTurnEvent(Head(inbox[c]))
    /\ Readable(Head(inbox[c]))
    /\ LET data == Head(inbox[c])
           user_text == extract_latest_user_message(data.transcript)
       IN  /\ user_text # <<>>
           /\ IF Has(call_id[c])
              THEN /\ CONVERSATION_HISTORY' =
                         [CONVERSATION_HISTORY EXCEPT
                             ![call_id[c]] = Append(@, Entry("user", user_text))]
                   /\ locals' = [locals EXCEPT ![c] =
                         [NoLocals EXCEPT !.response_id = data.response_id,
                                          !.user_text = user_text]]
                   /\ inbox' = [inbox EXCEPT ![c] = Tail(@)]
                   /\ pc' = [pc EXCEPT ![c] = "context"]
              ELSE Finally(c)
    /\ UNCHANGED <<call_id, outbox, grievances, broadcasts,
                   next_response_id, budget, hub, aside>>

\* lines 91-101: the context came back; the confirmation flag is computed and
\* the history handed to the reasoning service
CallReasoning(c) ==
    /\ pc[c] = "context"
    /\ IF Has(call_id[c])
       THEN /\ locals' = [locals EXCEPT ![c].user_confirmed =
                              detect_confirmation(locals[c].user_text)]
            /\ pc' = [pc EXCEPT ![c] = "reasoning"]
            /\ UNCHANGED <<CONVERSATION_HISTORY, inbox>>
       ELSE Finally(c)
    /\ UNCHANGED <<call_id, outbox, grievances, broadcasts,
                   next_response_id, budget, hub, aside>>

\* lines 97-108: the reasoning service answered
ReasoningReturned(c, out) ==
    /\ pc[c] = "reasoning"
    /\ LET ai_response == get_ai_response(out)
       IN  locals' = [locals EXCEPT
                        ![c].spoken_text = strip(ai_response.content),
                        ![c].tool_calls = ai_response.tool_calls,
                        ![c].ticket_id = NoTicket]
    /\ pc' = [pc EXCEPT ![c] = "tools"]
    /\ UNCHANGED <<call_id, CONVERSATION_HISTORY, inbox, outbox, grievances,
                   broadcasts, next_response_id, budget, hub, aside>>

\* the row of lines 130-137
Row(ticket_id, args, k) ==
    [ticket_id |-> ticket_id,
     citizen_name |-> IF "name" \in args.keys THEN "name" ELSE "Unknown",
     description |-> IF "issue" \in args.keys THEN args.issue ELSE "",
     department |-> IF "department" \in args.keys THEN "department" ELSE "General/PGC",
     status |-> "OPEN",
     call_id |-> k]

\* an except clause that logs and leaves the text alone
CaughtKeepsText(c, exception) ==
    locals' = [locals EXCEPT ![c].caught = exception,
                             ![c].tool_calls = Tail(@)]

\* lines 163-168: json.loads raised
Caught(c, exception) ==
    locals' = [locals EXCEPT ![c].spoken_text = RegisterApology,
                             ![c].caught = exception,
                             ![c].tool_calls = Tail(@)]

\* an insert whose transaction committed although the statement raised
InsertRaisedAfterCommit(c, ticket_id, args, exception) ==
    /\ grievances' = Append(grievances, Row(ticket_id, args, call_id[c]))
    /\ locals' = [locals EXCEPT ![c].spoken_text = RegisterApology,
                                ![c].caught = exception,
                                ![c].ticket_id = ticket_id,
                                ![c].tool_calls = Tail(@)]

\* lines 123-138 and 163-168: conn.execute raised; engine.begin() rolls the
\* transaction back and the except clause sets the apology
InsertRaised(c, ticket_id, args, exception) ==
    /\ grievances' = grievances
    /\ locals' = [locals EXCEPT ![c].spoken_text = RegisterApology,
                                ![c].caught = exception,
                                ![c].ticket_id = ticket_id,
                                ![c].tool_calls = Tail(@)]

\* a transaction that is still open when the with block is left
NotCommitted(rows, row) == rows

\* lines 123-138: the with block of engine.begin() commits on exit
Committed(rows, row) == Append(rows, row)

\* a broadcast that keeps the lock while it pushes
HeldDuringPushes(c) == c

\* ws.py lines 21-22: the async with block is left before the first push
ReleasedAfterSnapshot(c) == "free"

\* lines 110-141 and ws.py lines 20-22: one iteration of the tool loop up to
\* the first await after the insert (the first push of the broadcast); hex is
\* the uuid drawn, store_up tells whether the database can be reached.  No
\* await stands between the commit and the snapshot of the observer list: an
\* uncontended asyncio.Lock is acquired without suspending.
DispatchTool(c, hex, store_up) ==
    /\ pc[c] = "tools"
    /\ locals[c].tool_calls # <<>>
    /\ LET tool == Head(locals[c].tool_calls)
           args == tool.arguments
           ticket_id == make_ticket_id(hex)
       IN  IF tool.name # "register_grievance"
           THEN /\ locals' = [locals EXCEPT ![c].tool_calls = Tail(@)]
                /\ UNCHANGED <<pc, grievances, lock>>
           ELSE IF ~args.json_ok
           THEN /\ Caught(c, "JSONDecodeError")
                /\ UNCHANGED <<pc, grievances, lock>>
           ELSE IF ~store_up
           THEN /\ InsertRaised(c, ticket_id, args, "OperationalError")
                /\ UNCHANGED <<pc, lock>>
           ELSE IF UniqueViolation(ticket_id)
           THEN /\ InsertRaised(c, ticket_id, args, "IntegrityError")
                /\ UNCHANGED <<pc, lock>>
           ELSE /\ grievances' = Committed(grievances, Row(ticket_id, args, call_id[c]))
                /\ lock = "free"
                /\ lock' = ReleasedAfterSnapshot(c)
                /\ locals' = [locals EXCEPT ![c].ticket_id = ticket_id,
                                            ![c].connections = active_connections,
                                            ![c].pushed = 0]
                /\ pc' = [pc EXCEPT ![c] = "broadcast"]
    /\ UNCHANGED <<call_id, CONVERSATION_HISTORY, inbox, outbox, broadcasts,
                   next_response_id, budget, observers, active_connections,
                   pushes, aside>>

\* list.remove under the membership test of ws.py lines 17-18
Remove(list, o) == SelectSeq(list, LAMBDA x : x # o)

\* the message of lines 142-150 as one dashboard is sent it
Push(connection, ticket_id, ok) ==
    [to |-> connection, event |-> "NEW_GRIEVANCE", ticket_id |-> ticket_id,
     ok |-> ok]

\* a loop over the list of the hub as it is now
IteratedLive(c) == active_connections

\* ws.py line 24: the loop runs over the copy taken under the lock
Iterated(c) == locals[c].connections

\* a broadcast that gives up at the first push that raises
BroadcastPushUntilFailure(c, ok) ==
    /\ pc[c] = "broadcast"
    /\ locals[c].pushed < Len(Iterated(c))
    /\ LET connection == Iterated(c)[locals[c].pushed + 1]
       IN  /\ pushes' = Append(pushes, Push(connection, locals[c].ticket_id, ok))
           /\ IF ok
              THEN /\ UNCHANGED active_connections
                   /\ locals' = [locals EXCEPT ![c].pushed = @ + 1]
              ELSE /\ lock = "free"
                   /\ active_connections' = Remove(active_connections, connection)
                   /\ locals' = [locals EXCEPT ![c].pushed = Len(Iterated(c))]
    /\ UNCHANGED <<pc, call_id, CONVERSATION_HISTORY, inbox, outbox, grievances,
                   broadcasts, next_response_id, budget, observers, lock,
                   aside>>

\* ws.py lines 24-29: one push of the broadcast returns or raises; the
\* observer whose push raised is dropped from the list
BroadcastPush(c, ok) ==
    /\ pc[c] = "broadcast"
    /\ locals[c].pushed < Len(Iterated(c))
    /\ LET connection == Iterated(c)[locals[c].pushed + 1]
       IN  /\ pushes' = Append(pushes, Push(connection, locals[c].ticket_id, ok))
           /\ IF ok
              THEN UNCHANGED active_connections
              ELSE /\ lock = "free"
                   /\ active_connections' = Remove(active_connections, connection)
    /\ locals' = [locals EXCEPT ![c].pushed = @ + 1]
    /\ UNCHANGED <<pc, call_id, CONVERSATION_HISTORY, inbox, outbox, grievances,
                   broadcasts, next_response_id, budget, observers, lock,
                   aside>>

\* lines 141-161: the dashboard broadcast returned; the confirmation text
Broadcast(c) ==
    /\ pc[c] = "broadcast"
    /\ locals[c].pushed = Len(locals[c].connections)
    /\ broadcasts' = Append(broadcasts,
           [event |-> "NEW_GRIEVANCE", ticket_id |-> locals[c].ticket_id,
            call_id |-> call_id[c]])
    /\ locals' = [locals EXCEPT ![c].spoken_text = Registered(locals[c].ticket_id),
                                ![c].tool_calls = Tail(@)]
    /\ pc' = [pc EXCEPT ![c] = "tools"]
    /\ UNCHANGED <<call_id, CONVERSATION_HISTORY, inbox, outbox, grievances,
                   next_response_id, budget, hub, aside>>

\* a handler without lines 170-172
SendReplyWithoutFallback(c) ==
    /\ pc[c] = "tools"
    /\ locals[c].tool_calls = <<>>
    /\ outbox' = [outbox EXCEPT ![c] =
           Append(@, ReplyFrame(locals[c].response_id, locals[c].spoken_text))]
    /\ locals' = locals
    /\ pc' = [pc EXCEPT ![c] = "replied"]
    /\ UNCHANGED <<call_id, CONVERSATION_HISTORY, inbox, grievances, broadcasts,
                   next_response_id, budget, hub, aside>>

\* a handler that sends the clarification prompt without assigning it to
\* spoken_text
SendReplyFallbackUnassigned(c) ==
    /\ pc[c] = "tools"
    /\ locals[c].tool_calls = <<>>
    /\ LET spoken_text == IF locals[c].spoken_text = EmptyText
                          THEN RepeatPrompt ELSE locals[c].spoken_text
       IN  outbox' = [outbox EXCEPT ![c] =
                         Append(@, ReplyFrame(locals[c].response_id, spoken_text))]
    /\ locals' = locals
    /\ pc' = [pc EXCEPT ![c] = "replied"]
    /\ UNCHANGED <<call_id, CONVERSATION_HISTORY, inbox, grievances, broadcasts,
                   next_response_id, budget, hub, aside>>

\* lines 170-182: the reply frame goes out
SendReply(c) ==
    /\ pc[c] = "tools"
    /\ locals[c].tool_calls = <<>>
    /\ LET spoken_text == IF locals[c].spoken_text = EmptyText
                          THEN RepeatPrompt ELSE locals[c].spoken_text
       IN  /\ outbox' = [outbox EXCEPT ![c] =
                            Append(@, ReplyFrame(locals[c].response_id, spoken_text))]
           /\ locals' = [locals EXCEPT ![c].spoken_text = spoken_text]
    /\ pc' = [pc EXCEPT ![c] = "replied"]
    /\ UNCHANGED <<call_id, CONVERSATION_HISTORY, inbox, grievances, broadcasts,
                   next_response_id, budget, hub, aside>>

\* lines 184-193: the reply is appended and the history limited
AppendReply(c) ==
    /\ pc[c] = "replied"
    /\ IF Has(call_id[c])
       THEN /\ CONVERSATION_HISTORY' =
                  [CONVERSATION_HISTORY EXCEPT ![call_id[c]] =
                      LimitHistory(Append(@, Entry("assistant", locals[c].spoken_text)))]
            /\ locals' = [locals EXCEPT ![c] = NoLocals]
            /\ pc' = [pc EXCEPT ![c] = "receive"]
            /\ UNCHANGED inbox
       ELSE Finally(c)
    /\ UNCHANGED <<call_id, outbox, grievances, broadcasts,
                   next_response_id, budget, hub, aside>>

\* lines 195-196: receive_json or send_json finds the socket closed
Disconnect(c) ==
    /\ \/ pc[c] = "greeting"
       \/ pc[c] = "receive" /\ (inbox[c] = <<>> \/ (inbox[c] # <<>> /\ IsPing(Head(inbox[c]))))
       \/ pc[c] = "tools" /\ locals[c].tool_calls = <<>>
    /\ Finally(c)
    /\ UNCHANGED <<call_id, outbox, grievances, broadcasts,
                   next_response_id, budget, hub, aside>>

\* the handler's task is cancelled while it waits inside a turn; the finally
\* block still runs
Cancel(c) ==
    /\ pc[c] \in {"context", "reasoning", "broadcast"}
    /\ Finally(c)
    /\ UNCHANGED <<call_id, outbox, grievances, broadcasts,
                   next_response_id, budget, hub, aside>>

(***************************************************************************)
(* The dashboard hub, ConnectionManager of src/app/ws.py                   *)
(***************************************************************************)
\* main.py line 58 and ws.py lines 10-13: a dashboard connects and is listed
manager_connect(o) ==
    /\ observers[o] = "new"
    /\ budget > 0
    /\ lock = "free"
    /\ active_connections' = Append(active_connections, o)
    /\ observers' = [observers EXCEPT ![o] = "open"]
    /\ budget' = budget - 1
    /\ UNCHANGED <<pc, call_id, CONVERSATION_HISTORY, locals, inbox, outbox,
                   grievances, broadcasts, next_response_id, lock, pushes,
                   aside>>

\* main.py lines 62-63 and ws.py lines 15-18: the dashboard went away and the
\* endpoint removes it from the list if it is still there
manager_disconnect(o) ==
    /\ observers[o] = "open"
    /\ lock = "free"
    /\ active_connections' = Remove(active_connections, o)
    /\ observers' = [observers EXCEPT ![o] = "closed"]
    /\ UNCHANGED <<pc, call_id, CONVERSATION_HISTORY, locals, inbox, outbox,
                   grievances, broadcasts, next_response_id, budget, lock,
                   pushes, aside>>

\* main.py lines 59-63 and backend/app/main.py lines 35-39: the endpoint ends
\* without the dashboard having been removed.  In main.py receive_text raised
\* something other than WebSocketDisconnect, which the except clause does not
\* catch; in backend/app/main.py the except clause calls manager.disconnect
\* without await, so the coroutine is created and its body never runs.
EndpointRaised(o) ==
    /\ observers[o] = "open"
    /\ observers' = [observers EXCEPT ![o] = "closed"]
    /\ UNCHANGED <<pc, call_id, CONVERSATION_HISTORY, locals, inbox, outbox,
                   grievances, broadcasts, next_response_id, budget,
                   active_connections, lock, pushes, aside>>

(***************************************************************************)
(* The telephony platform                                                  *)
(***************************************************************************)
Connected(c) == pc[c] \notin {"new", "closed"}

CanSend(c) ==
    /\ Connected(c)
    /\ budget > 0
    /\ Len(inbox[c]) < MaxInbox

\* a keepalive frame; "during" is the response_id of the turn that is waiting
\* on the reasoning service when the frame arrives, 0 when none is
PlatformPing(c, ts) ==
    /\ CanSend(c)
    /\ inbox' = [inbox EXCEPT ![c] = Append(@,
           [interaction_type |-> "ping_pong", timestamp |-> ts,
            during |-> IF pc[c] = "reasoning" THEN locals[c].response_id ELSE 0])]
    /\ budget' = budget - 1
    /\ UNCHANGED <<pc, call_id, CONVERSATION_HISTORY, locals, outbox,
                   grievances, broadcasts, next_response_id, hub, aside>>

PlatformTurn(c, transcript) ==
    /\ CanSend(c)
    /\ inbox' = [inbox EXCEPT ![c] = Append(@,
           [interaction_type |-> "response_required",
            response_id |-> next_response_id, transcript |-> transcript])]
    /\ next_response_id' = next_response_id + 1
    /\ budget' = budget - 1
    /\ UNCHANGED <<pc, call_id, CONVERSATION_HISTORY, locals, outbox,
                   grievances, broadcasts, hub, aside>>

\* frames of another shape than the two the handler expects
FrameShapes == {"update_only", "no_response_id", "scalar_item"}

UnexpectedFrame(shape, rid) ==
    IF shape = "update_only"
    THEN [interaction_type |-> "update_only",
          transcript |-> << [role |-> "user", content |-> TextOK] >>]
    ELSE IF shape = "no_response_id"
    THEN [interaction_type |-> "response_required",
          transcript |-> << [role |-> "user", content |-> TextOK] >>]
    ELSE [interaction_type |-> "response_required", response_id |-> rid,
          transcript |-> << [role |-> "user", content |-> TextOK],
                            [scalar |-> "text"] >>]

PlatformUnexpected(c, shape) ==
    /\ CanSend(c)
    /\ inbox' = [inbox EXCEPT ![c] = Append(@, UnexpectedFrame(shape, next_response_id))]
    /\ next_response_id' =
           IF shape = "scalar_item" THEN next_response_id + 1 ELSE next_response_id
    /\ budget' = budget - 1
    /\ UNCHANGED <<pc, call_id, CONVERSATION_HISTORY, locals, outbox,
                   grievances, broadcasts, hub, aside>>

(***************************************************************************)
(* The context provider, RAGService.get_context of src/app/services/rag.py *)
(***************************************************************************)
top_k == 3
MAX_CHARS == 1200
\* len("\n\n---\n\n"), the separator of line 60
SeparatorLen == 7

\* a retrieved chunk is given by the number of characters of its metadata
\* text after strip(): 0 when the text is missing or blank
ChunkLens == {0, 1, 7, 400, 593, 600, 1199, 1200, 1201}

\* what index.query may return with top_k=3
MatchLists == UNION {[1..n -> ChunkLens] : n \in 0..top_k}

RECURSIVE Sum(_)
Sum(seq) == IF seq = <<>> THEN 0 ELSE Head(seq) + Sum(Tail(seq))

\* len(sep.join(chunks))
JoinedLen(chunks) ==
    IF chunks = <<>> THEN 0
    ELSE Sum(chunks) + SeparatorLen * (Len(chunks) - 1)

\* lines 43-58: the loop that collects the chunks
RECURSIVE context_chunks(_, _, _)
context_chunks(ms, chunks, total_chars) ==
    IF ms = <<>> THEN chunks
    ELSE LET text == Head(ms)
         IN  IF text = 0
             THEN context_chunks(Tail(ms), chunks, total_chars)
             ELSE IF total_chars + text > MAX_CHARS
             THEN chunks
             ELSE context_chunks(Tail(ms), Append(chunks, text), total_chars + text)

Returned(chunks) == [chunks |-> chunks, length |-> JoinedLen(chunks)]

\* lines 38-60: the index answered and the block is built
get_context ==
    /\ context = NotReturned
    /\ context' = Returned(context_chunks(matches, <<>>, 0))
    /\ UNCHANGED <<pc, call_id, CONVERSATION_HISTORY, locals, inbox, outbox,
                   grievances, broadcasts, next_response_id, budget, hub,
                   matches, area_hotspots, area_grievances, row_locks>>

\* lines 62-64: the embedding or the query raised
get_context_raised ==
    /\ context = NotReturned
    /\ context' = Returned(<<>>)
    /\ UNCHANGED <<pc, call_id, CONVERSATION_HISTORY, locals, inbox, outbox,
                   grievances, broadcasts, next_response_id, budget, hub,
                   matches, area_hotspots, area_grievances, row_locks>>

\* a query for which the index has found its matches
InitContext ==
    /\ Start({}, 0)
    /\ Hub({}, <<>>)
    /\ NoAreas
    /\ matches \in MatchLists
    /\ context = NotReturned

NextContext == get_context \/ get_context_raised

(***************************************************************************)
(* Area statistics: src/area_hotspot_service.py and resolve_complaint of   *)
(* src/manager_api.py.  The engine of app/db.py is PostgreSQL: a           *)
(* transaction reads what is committed, and an UPDATE of a row that        *)
(* another transaction has updated waits until that transaction ends.      *)
(***************************************************************************)
\* column defaults of the area_hotspots table
warning_threshold == 10
critical_threshold == 25
severe_threshold == 50

\* lines 68-76: the row a first complaint inserts
FirstRow ==
    [open_complaints |-> 1, is_hotspot |-> FALSE, hotspot_level |-> "NULL",
     warning_threshold |-> warning_threshold,
     critical_threshold |-> critical_threshold,
     severe_threshold |-> severe_threshold]

\* lines 150-162: the level check_and_flag_hotspot derives from the row it read
new_level(stats) ==
    IF stats.open_complaints >= stats.severe_threshold THEN "SEVERE"
    ELSE IF stats.open_complaints >= stats.critical_threshold THEN "CRITICAL"
    ELSE IF stats.open_complaints >= stats.warning_threshold THEN "WARNING"
    ELSE "NULL"

should_flag(stats) == new_level(stats) # "NULL"

\* lines 165-203: each of the three branches runs an UPDATE of the row
check_updates(stats) == should_flag(stats) \/ stats.is_hotspot

\* what the manager may have set for the wait on a row lock: none (the
\* default, the statement waits) or a lock_timeout (the statement raises)
LockWaits == {"blocks", "raises"}

\* lines 46-119: a complaint was created in area a and its statistics are
\* updated.  check_and_flag_hotspot runs inside the with block (line 116),
\* on a connection of its own, before the outer transaction commits: it
\* reads the committed row (none after the INSERT, the row before the
\* increment after the UPDATE), and its UPDATE waits for the row the outer
\* transaction has locked: for ever, or until the lock_timeout raises in it
\* (caught at line 207).
update_area_hotspot(a, lock_wait) ==
    /\ a \notin row_locks
    /\ area_grievances[a] < MaxAreaComplaints
    /\ area_grievances' = [area_grievances EXCEPT ![a] = @ + 1]
    /\ LET stats == area_hotspots[a]
       IN  IF stats = NoRow
           THEN /\ area_hotspots' = [area_hotspots EXCEPT ![a] = FirstRow]
                /\ UNCHANGED row_locks
           ELSE IF check_updates(stats) /\ lock_wait = "blocks"
           THEN /\ row_locks' = row_locks \cup {a}
                /\ UNCHANGED area_hotspots
           ELSE /\ area_hotspots' =
                       [area_hotspots EXCEPT ![a].open_complaints = @ + 1]
                /\ UNCHANGED row_locks
    /\ UNCHANGED <<pc, call_id, CONVERSATION_HISTORY, locals, inbox, outbox,
                   grievances, broadcasts, next_response_id, budget, hub,
                   matches, context>>

\* manager_api.py lines 57-145: an open complaint of area a is resolved; the
\* counter of the area is decremented (128-139) and nothing else of the row
\* is touched
resolve_complaint(a) ==
    /\ a \notin row_locks
    /\ area_grievances[a] > 0
    /\ area_grievances' = [area_grievances EXCEPT ![a] = @ - 1]
    /\ area_hotspots' =
           IF area_hotspots[a] = NoRow THEN area_hotspots
           ELSE [area_hotspots EXCEPT ![a].open_complaints = @ - 1]
    /\ UNCHANGED <<pc, call_id, CONVERSATION_HISTORY, locals, inbox, outbox,
                   grievances, broadcasts, next_response_id, budget, hub,
                   matches, context, row_locks>>

\* the tables after the migration, no call and no dashboard
InitHotspot ==
    /\ Start({}, 0)
    /\ Hub({}, <<>>)
    /\ NoQuery
    /\ NoAreas

NextHotspot ==
    \/ \E a \in Areas, lock_wait \in LockWaits : update_area_hotspot(a, lock_wait)
    \/ \E a \in Areas : resolve_complaint(a)

(***************************************************************************)
(* Specification                                                           *)
(***************************************************************************)
Next ==
    \/ \E c \in Conns : \E k \in CallIdsOf(c) : Accept(c, k)
    \/ \E c \in Conns : SendGreeting(c)
    \/ \E c \in Conns : AppendGreeting(c)
    \/ \E c \in Conns : EchoPing(c)
    \/ \E c \in Conns : DropFrame(c)
    \/ \E c \in Conns : FrameError(c)
    \/ \E c \in Conns : SkipTurn(c)
    \/ \E c \in Conns : StartTurn(c)
    \/ \E c \in Conns : CallReasoning(c)
    \/ \E c \in Conns, out \in ModelOutputs : ReasoningReturned(c, out)
    \/ \E c \in Conns, hex \in UuidHex, store_up \in BOOLEAN :
           DispatchTool(c, hex, store_up)
    \/ \E c \in Conns, ok \in BOOLEAN : BroadcastPush(c, ok)
    \/ \E c \in Conns : Broadcast(c)
    \/ \E c \in Conns : SendReply(c)
    \/ \E c \in Conns : AppendReply(c)
    \/ \E c \in Conns : Disconnect(c)
    \/ \E c \in Conns : Cancel(c)
    \/ \E o \in Observers : manager_connect(o)
    \/ \E o \in Observers : manager_disconnect(o)
    \/ \E o \in Observers : EndpointRaised(o)
    \/ \E c \in Conns, ts \in Timestamps : PlatformPing(c, ts)
    \/ \E c \in Conns, transcript \in Transcripts : PlatformTurn(c, transcript)
    \/ \E c \in Conns, shape \in FrameShapes : PlatformUnexpected(c, shape)

\* one call, from the first connection on
Spec == Init /\ [][Next]_vars

\* up to two connections served at once
SpecTwoCalls == InitTwoCalls /\ [][Next]_vars

\* one call and the dashboards
SpecDashboard == InitDashboard /\ [][Next]_vars

\* one call, fresh or already WarmTurns turns long
SpecLongCall == InitLongCall /\ [][Next]_vars

\* a long call and a connection that arrives during it
SpecSecondCall == InitSecondCall /\ [][Next]_vars

\* one query of the context provider
SpecContext == InitContext /\ [][NextContext]_vars

\* complaints of two areas are registered and resolved
SpecHotspot == InitHotspot /\ [][NextHotspot]_vars

\* the steps the handler of connection c takes by itself once the event loop
\* runs it; the steps that wait for the context provider, the reasoning
\* service or a dashboard to answer are not among them: no await of the turn
\* is wrapped in a timeout
HandlerProgress(c) ==
    \/ SendGreeting(c)
    \/ AppendGreeting(c)
    \/ EchoPing(c)
    \/ DropFrame(c)
    \/ FrameError(c)
    \/ SkipTurn(c)
    \/ StartTurn(c)
    \/ \E hex \in UuidHex, store_up \in BOOLEAN : DispatchTool(c, hex, store_up)
    \/ Broadcast(c)
    \/ SendReply(c)
    \/ AppendReply(c)

\* one call on an event loop that runs every ready handler step
SpecFair == Init /\ [][Next]_vars /\ \A c \in Conns : WF_vars(HandlerProgress(c))


(***************************************************************************)
(* Properties                                                              *)
(***************************************************************************)
\* the reply frames of a connection that carry response_id rid
RepliesTo(c, rid) ==
    {i \in 1..Len(outbox[c]) : IsReply(outbox[c][i]) /\ outbox[c][i].response_id = rid}

\* the rows written for a call
RowsOf(k) == {i \in 1..Len(grievances) : grievances[i].call_id = k}

\* connection c is about to run the register_grievance branch on arguments
\* that json.loads accepts
AtRegister(c) ==
    /\ pc[c] = "tools"
    /\ locals[c].tool_calls # <<>>
    /\ Head(locals[c].tool_calls).name = "register_grievance"
    /\ Head(locals[c].tool_calls).arguments.json_ok

\* C1: in a turn whose user utterance is not a confirmation
\* (user_confirmed = FALSE) no register_grievance row is inserted, whatever
\* tool calls the reasoning service returned.  A connection stands at
\* "broadcast" exactly when it has just inserted a row.
C1_NoPrematureWrite ==
    \A c \in Conns : pc[c] = "broadcast" => locals[c].user_confirmed

\* C2: a register_grievance tool call repeated within one call (in the same
\* turn or in a later one) inserts one record only: no two rows of a call come
\* from the same arguments.
C2_AtMostOncePerIntent ==
    \A i, j \in 1..Len(grievances) :
        (i < j /\ grievances[i].call_id = grievances[j].call_id)
            => <<grievances[i].citizen_name, grievances[i].description,
                 grievances[i].department>>
               # <<grievances[j].citizen_name, grievances[j].description,
                   grievances[j].department>>

\* C3: every response_required frame read is answered by exactly one reply
\* frame with its response_id: reading one never leads straight back to
\* reading, and when a turn returns to reading exactly one frame with the
\* turn's response_id has been sent.
C3_ReplyCardinality ==
    [][\A c \in Conns :
          /\ ( /\ pc[c] = "receive"
               /\ inbox[c] # <<>>
               /\ IsTurnEvent(Head(inbox[c]))
               /\ inbox'[c] = Tail(inbox[c]) )
             => pc'[c] # "receive"
          /\ (pc[c] \in TurnPositions /\ pc'[c] = "receive")
             => Cardinality({i \in 1..Len(outbox'[c]) :
                    /\ IsReply(outbox'[c][i])
                    /\ outbox'[c][i].response_id = locals[c].response_id}) = 1
      ]_vars

\* C4: when a connection ends, whatever the reason (disconnect, transport
\* error, an exception or a cancellation inside a turn), the session store
\* holds no entry for the call_id of that connection right afterwards.
C4_CleanupOnEveryExit ==
    [][\A c \in Conns :
          (pc[c] # "closed" /\ pc'[c] = "closed")
             => call_id[c] \notin DOMAIN CONVERSATION_HISTORY'
      ]_vars

\* a connection that ended inside a turn, after its row was inserted and
\* before the broadcast, and whose entry is gone
C4_Witness ==
    \E c \in Conns :
        /\ pc[c] = "closed"
        /\ call_id[c] \notin DOMAIN CONVERSATION_HISTORY
        /\ RowsOf(call_id[c]) # {}
        /\ broadcasts = <<>>

\* C5: at every point of a call, also when the history is handed to the
\* reasoning service, the history holds at most 20 entries.
C5_HistoryAtMostCap ==
    \A k \in DOMAIN CONVERSATION_HISTORY :
        Len(CONVERSATION_HISTORY[k]) <= HistoryCap


\* the step is one of connection c in its tool loop
ToolStepOf(c) ==
    \/ pc'[c] # pc[c]
    \/ locals'[c].tool_calls # locals[c].tool_calls

\* C6: when the history is trimmed (the reply is appended and the history does
\* not grow), the new history is the last 18 entries of the history before
\* the trim, in their order: entry i of the new history is entry
\* (length - 18 + i) of the old one with the reply appended.
C6_TrimKeepsLast18 ==
    [][\A c \in Conns :
          ( /\ pc[c] = "replied"
            /\ pc'[c] = "receive"
            /\ Len(CONVERSATION_HISTORY'[call_id[c]])
                   <= Len(CONVERSATION_HISTORY[call_id[c]]) )
          => LET before == Append(CONVERSATION_HISTORY[call_id[c]],
                                  Entry("assistant", locals[c].spoken_text))
                 after == CONVERSATION_HISTORY'[call_id[c]]
             IN  /\ Len(after) = HistoryKeep
                 /\ \A i \in 1..HistoryKeep :
                        after[i] = before[Len(before) - HistoryKeep + i]
      ]_vars

\* a call that was trimmed after the long-call state: 18 entries, more reply
\* frames than the warm turns account for, and a user entry of a new turn
C6_Witness ==
    /\ pc["w1"] = "receive"
    /\ "A" \in DOMAIN CONVERSATION_HISTORY
    /\ Len(CONVERSATION_HISTORY["A"]) = HistoryKeep
    /\ Len(outbox["w1"]) > WarmTurns + 1
    /\ CONVERSATION_HISTORY["A"][HistoryKeep].role = "assistant"
    /\ CONVERSATION_HISTORY["A"][HistoryKeep - 1].content \in {strip(TextOK), strip(TextNo)}

\* C7: a ping_pong frame that arrived while a turn was waiting on the
\* reasoning service is echoed before the reply frame of that turn is sent:
\* no such frame is still unread once the reply of that turn is out.
C7_PingNotQueuedBehindTurn ==
    \A c \in Conns : \A i \in 1..Len(inbox[c]) :
        (IsPing(inbox[c][i]) /\ inbox[c][i].during > 0)
            => RepliesTo(c, inbox[c][i].during) = {}

\* C8: a register_grievance tool call whose arguments lack a required field
\* inserts nothing, is followed by no broadcast, and does not turn the reply
\* into the failure apology.
C8_MissingFieldNoWrite ==
    [][\A c \in Conns :
          ( /\ AtRegister(c)
            /\ ~(RequiredFields \subseteq Head(locals[c].tool_calls).arguments.keys)
            /\ ToolStepOf(c) )
          => /\ grievances' = grievances
             /\ pc'[c] # "broadcast"
             /\ locals'[c].spoken_text # RegisterApology
      ]_vars

HexUpper == {"0","1","2","3","4","5","6","7","8","9","A","B","C","D","E","F"}

\* DEL- followed by six uppercase hexadecimal characters
TicketFormat(t) ==
    /\ Len(t) = 10
    /\ SubSeq(t, 1, 4) = <<"D","E","L","-">>
    /\ \A i \in 5..10 : t[i] \in HexUpper

\* C9: every row a call has inserted has, once the turn is over, exactly one
\* NEW_GRIEVANCE event with its ticket_id and a reply frame on the connection
\* that contains this ticket_id, which has the documented format.
C9_InsertBroadcastReply ==
    \A c \in Conns :
        pc[c] = "receive" =>
            \A i \in RowsOf(call_id[c]) :
                LET t == grievances[i].ticket_id
                IN  /\ TicketFormat(t)
                    /\ Cardinality({j \in 1..Len(broadcasts) :
                           /\ broadcasts[j].event = "NEW_GRIEVANCE"
                           /\ broadcasts[j].ticket_id = t}) = 1
                    /\ \E j \in 1..Len(outbox[c]) :
                           /\ IsReply(outbox[c][j])
                           /\ IsSubstring(t, outbox[c][j].content)

\* no two rows share a ticket_id
UniqueTickets ==
    \A i, j \in 1..Len(grievances) :
        i # j => grievances[i].ticket_id # grievances[j].ticket_id

\* the registration connection c is about to run is unrelated to the rows its
\* call has written: it describes another issue
UnrelatedIntent(c) ==
    \A i \in RowsOf(call_id[c]) :
        grievances[i].description # Head(locals[c].tool_calls).arguments.issue

\* C10 as stated: a confirmed registration of an issue the call has not
\* registered yet, whose arguments parse and whose store can be reached,
\* inserts a row (so two unrelated intents in two turns insert two rows), and
\* no two rows share a ticket_id.
C10_TwoIntentsTwoTickets ==
    [][/\ UniqueTickets'
       /\ \A c \in Conns :
            ( /\ AtRegister(c)
              /\ locals[c].user_confirmed
              /\ UnrelatedIntent(c)
              /\ ToolStepOf(c)
              /\ locals'[c].caught # "OperationalError" )
            => /\ pc'[c] = "broadcast"
               /\ Len(grievances') = Len(grievances) + 1
      ]_vars

\* C10 amended: every confirmed registration whose arguments parse either
\* inserts one row under a ticket_id no stored row has, followed by one
\* NEW_GRIEVANCE event with that ticket_id, or the insert raises (the store is
\* unreachable, or the generated ticket_id is already stored and the unique
\* index rejects it), in which case nothing is written and the text becomes
\* the apology; no two rows ever share a ticket_id.
C10_TwoIntentsTwoTicketsUnlessInsertRaises ==
    [][/\ UniqueTickets'
       /\ \A c \in Conns :
            /\ (AtRegister(c) /\ locals[c].user_confirmed /\ ToolStepOf(c))
               => \/ /\ pc'[c] = "broadcast"
                     /\ Len(grievances') = Len(grievances) + 1
                     /\ SubSeq(grievances', 1, Len(grievances)) = grievances
                     /\ grievances'[Len(grievances')].ticket_id = locals'[c].ticket_id
                     /\ grievances'[Len(grievances')].call_id = call_id[c]
                     /\ locals'[c].ticket_id \notin TicketIds
                  \/ /\ pc'[c] = "tools"
                     /\ grievances' = grievances
                     /\ locals'[c].spoken_text = RegisterApology
                     /\ locals'[c].caught \in {"OperationalError", "IntegrityError"}
                     /\ locals'[c].caught = "IntegrityError"
                            => locals'[c].ticket_id \in TicketIds
            /\ (pc[c] = "broadcast" /\ pc'[c] = "tools")
               => broadcasts' = Append(broadcasts,
                      [event |-> "NEW_GRIEVANCE",
                       ticket_id |-> grievances[Len(grievances)].ticket_id,
                       call_id |-> call_id[c]])
      ]_vars

\* two registrations of different issues, made in two confirmed turns of call
\* A, with two rows, two events and two ticket_ids
C10_Witness ==
    /\ pc["w1"] = "receive"
    /\ Len(grievances) = 2
    /\ grievances[1].call_id = "A" /\ grievances[2].call_id = "A"
    /\ grievances[1].description # grievances[2].description
    /\ grievances[1].ticket_id # grievances[2].ticket_id
    /\ Len(broadcasts) = 2
    /\ broadcasts[1].ticket_id = grievances[1].ticket_id
    /\ broadcasts[2].ticket_id = grievances[2].ticket_id
    /\ \A i \in 1..2 : \E j \in 1..Len(outbox["w1"]) :
           /\ IsReply(outbox["w1"][j])
           /\ outbox["w1"][j].content = Registered(grievances[i].ticket_id)
    /\ \A i \in 1..Len(CONVERSATION_HISTORY["A"]) :
           CONVERSATION_HISTORY["A"][i].role = "user"
               => detect_confirmation(CONVERSATION_HISTORY["A"][i].content)

\* the step is one of the handler of connection d
HandlerStepOf(d) ==
    \/ pc'[d] # pc[d]
    \/ locals'[d] # locals[d]
    \/ outbox'[d] # outbox[d]

\* C11: while connection c serves a call whose session is in the store, no
\* step of another connection that carries the same call_id (its arrival, its
\* turns, its teardown) resets, alters or removes the history of that session.
C11_DuplicateCallIdKeepsSession ==
    [][\A c, d \in Conns :
          ( /\ c # d
            /\ Connected(c)
            /\ Has(call_id[c])
            /\ call_id'[d] = call_id[c]
            /\ HandlerStepOf(d) )
          => /\ call_id[c] \in DOMAIN CONVERSATION_HISTORY'
             /\ CONVERSATION_HISTORY'[call_id[c]] = CONVERSATION_HISTORY[call_id[c]]
      ]_vars

\* connection c is about to run the register_grievance branch on arguments
\* that json.loads rejects
AtMalformed(c) ==
    /\ pc[c] = "tools"
    /\ locals[c].tool_calls # <<>>
    /\ Head(locals[c].tool_calls).name = "register_grievance"
    /\ ~Head(locals[c].tool_calls).arguments.json_ok

\* the step sends the reply frame of the turn of connection c
ReplySent(c) == pc[c] = "tools" /\ pc'[c] = "replied"

\* the frame the step has sent on connection c
SentFrame(c) == outbox'[c][Len(outbox'[c])]

\* inside the tool loop the apology stays the text of the turn unless a
\* registration made by a later tool call replaces it by its confirmation
ApologyKeptUnlessRegistered(c) ==
    ( /\ pc[c] \in {"tools", "broadcast"}
      /\ pc'[c] \in {"tools", "broadcast"}
      /\ locals[c].spoken_text = RegisterApology )
    => \/ locals'[c].spoken_text = RegisterApology
       \/ /\ pc[c] = "broadcast"
          /\ locals[c].ticket_id \in TicketIds
          /\ locals'[c].spoken_text = Registered(locals[c].ticket_id)

\* C12 as stated: a register_grievance call whose arguments are not valid
\* JSON writes nothing and broadcasts nothing, the handler stays in its turn,
\* and the reply frame of the turn is the apology.
C12_MalformedArgumentsApology ==
    [][\A c \in Conns :
          /\ (AtMalformed(c) /\ ToolStepOf(c))
             => /\ grievances' = grievances
                /\ broadcasts' = broadcasts
                /\ pc'[c] = "tools"
                /\ locals'[c].caught = "JSONDecodeError"
          /\ (ReplySent(c) /\ locals[c].caught = "JSONDecodeError")
             => SentFrame(c).content = RegisterApology
      ]_vars

\* C12 amended: a register_grievance call whose arguments are not valid JSON
\* writes nothing and broadcasts nothing, sets the text of the turn to the
\* apology and leaves the handler in its turn; the reply frame of the turn is
\* that apology unless a later register_grievance call of the same turn
\* inserted a record, in which case it is the confirmation of that record.
C12_MalformedArgumentsApologyUnlessRegistered ==
    [][\A c \in Conns :
          /\ (AtMalformed(c) /\ ToolStepOf(c))
             => /\ grievances' = grievances
                /\ broadcasts' = broadcasts
                /\ pc'[c] = "tools"
                /\ locals'[c].caught = "JSONDecodeError"
                /\ locals'[c].spoken_text = RegisterApology
          /\ ApologyKeptUnlessRegistered(c)
          /\ (ReplySent(c) /\ locals[c].caught = "JSONDecodeError")
             => /\ SentFrame(c).response_id = locals[c].response_id
                /\ \/ SentFrame(c).content = RegisterApology
                   \/ /\ locals[c].ticket_id \in TicketIds
                      /\ SentFrame(c).content = Registered(locals[c].ticket_id)
      ]_vars

\* a turn whose only tool call had malformed arguments: the apology has been
\* sent as its reply, nothing is stored or broadcast, and the next turn event
\* waits on the open connection
C12_Witness ==
    \E c \in Conns :
        /\ pc[c] = "replied"
        /\ locals[c].caught = "JSONDecodeError"
        /\ outbox[c][Len(outbox[c])] = ReplyFrame(locals[c].response_id, RegisterApology)
        /\ grievances = <<>>
        /\ broadcasts = <<>>
        /\ inbox[c] # <<>>
        /\ IsTurnEvent(Head(inbox[c]))
        /\ Readable(Head(inbox[c]))

\* the step runs the register_grievance branch of connection c and its insert
\* raises: the handler does not go on to the broadcast
InsertFails(c) == AtRegister(c) /\ ToolStepOf(c) /\ pc'[c] # "broadcast"

\* every register_grievance call whose arguments parse is executed: it either
\* inserts one record or raises, whatever happened earlier in the call
ExecutedAfresh(c) ==
    (AtRegister(c) /\ ToolStepOf(c))
    => \/ /\ pc'[c] = "broadcast"
          /\ grievances' = Append(grievances,
                 Row(locals'[c].ticket_id,
                     Head(locals[c].tool_calls).arguments, call_id[c]))
       \/ /\ pc'[c] = "tools"
          /\ locals'[c].caught \in {"OperationalError", "IntegrityError"}

\* C13 as stated: when the insert of a registration raises, no record is
\* stored and nothing is broadcast for it, the handler stays in its turn, the
\* reply frame of the turn is the apology, and a registration tool call made
\* later is executed as a fresh attempt.
C13_FailedInsertApology ==
    [][\A c \in Conns :
          /\ InsertFails(c)
             => /\ grievances' = grievances
                /\ broadcasts' = broadcasts
                /\ pc'[c] = "tools"
          /\ (ReplySent(c) /\ locals[c].caught \in {"OperationalError", "IntegrityError"})
             => SentFrame(c).content = RegisterApology
          /\ ExecutedAfresh(c)
      ]_vars

\* C13 amended: when the insert of a registration raises, no record is stored
\* and nothing is broadcast for it, the text of the turn becomes the apology
\* and the handler stays in its turn; the reply frame of the turn is that
\* apology unless a later register_grievance call of the same turn inserted a
\* record, in which case it is the confirmation of that record; every later
\* registration tool call is executed as a fresh attempt.
C13_FailedInsertApologyUnlessRegistered ==
    [][\A c \in Conns :
          /\ InsertFails(c)
             => /\ grievances' = grievances
                /\ broadcasts' = broadcasts
                /\ pc'[c] = "tools"
                /\ locals'[c].spoken_text = RegisterApology
                /\ locals'[c].tool_calls = Tail(locals[c].tool_calls)
          /\ (ReplySent(c) /\ locals[c].caught \in {"OperationalError", "IntegrityError"})
             => \/ SentFrame(c).content = RegisterApology
                \/ /\ locals[c].ticket_id \in TicketIds
                   /\ SentFrame(c).content = Registered(locals[c].ticket_id)
          /\ ExecutedAfresh(c)
      ]_vars

\* a turn whose registration could not reach the store: the apology has been
\* sent as its reply, nothing is stored under the ticket_id drawn, nothing was
\* broadcast, and the next turn event waits on the open connection
C13_Witness ==
    \E c \in Conns :
        /\ pc[c] = "replied"
        /\ locals[c].caught = "OperationalError"
        /\ locals[c].ticket_id # NoTicket
        /\ locals[c].ticket_id \notin TicketIds
        /\ outbox[c][Len(outbox[c])] = ReplyFrame(locals[c].response_id, RegisterApology)
        /\ grievances = <<>>
        /\ broadcasts = <<>>
        /\ inbox[c] # <<>>
        /\ IsTurnEvent(Head(inbox[c]))
        /\ Readable(Head(inbox[c]))

\* the step reads a frame on connection c and the handler goes on
FrameRead(c) ==
    /\ inbox[c] # <<>>
    /\ inbox'[c] = Tail(inbox[c])
    /\ pc'[c] # "closed"

\* C14: the first frame sent on a connection after the handshake is the
\* greeting reply (response_id 0, non-empty text, content_complete true,
\* end_call false), and no inbound frame is read before it has been sent.
C14_GreetingFirst ==
    [][\A c \in Conns :
          /\ outbox'[c] # <<>>
             => /\ IsReply(outbox'[c][1])
                /\ outbox'[c][1].response_id = 0
                /\ outbox'[c][1].content # EmptyText
                /\ outbox'[c][1].content_complete = TRUE
                /\ outbox'[c][1].end_call = FALSE
          /\ (outbox[c] = <<>> /\ outbox'[c] # <<>>) => pc[c] = "greeting"
          /\ FrameRead(c) => outbox[c] # <<>>
      ]_vars

\* the greeting is the only frame sent and no frame has been read, although
\* frames of the platform are already waiting
C14_Witness ==
    \E c \in Conns :
        /\ pc[c] = "greeted"
        /\ outbox[c] = << ReplyFrame(0, Greeting) >>
        /\ Len(inbox[c]) = MaxInbox

\* the response_ids the platform hands out in one call
ResponseIds == 1..MaxFrames

\* C15: every turn that has been started is answered: once a response_required
\* frame with response_id rid has been read, a reply frame with that
\* response_id is eventually sent or the connection has ended, also when the
\* context provider or the reasoning service does not return.
C15_TurnEventuallyAnswered ==
    \A c \in Conns : \A rid \in ResponseIds :
        (pc[c] \in TurnPositions /\ locals[c].response_id = rid)
            ~> (RepliesTo(c, rid) # {} \/ pc[c] = "closed")

\* C16: every reply frame sent for a turn has non-empty content; when the
\* text of the turn is empty after the tool loop (the reasoning service
\* returned no text, and no tool call or only tool calls that set no text),
\* the fixed clarification prompt is sent in its place.
C16_NoEmptyReply ==
    [][\A c \in Conns :
          /\ \A i \in 1..Len(outbox'[c]) :
                IsReply(outbox'[c][i]) => strip(outbox'[c][i].content) # EmptyText
          /\ ReplySent(c)
             => /\ SentFrame(c).response_id = locals[c].response_id
                /\ SentFrame(c).content =
                       IF locals[c].spoken_text = EmptyText
                       THEN RepeatPrompt ELSE locals[c].spoken_text
      ]_vars

\* the clarification prompt has been sent as the reply of a turn in which
\* nothing was registered
C16_Witness ==
    \E c \in Conns :
        /\ pc[c] = "replied"
        /\ locals[c].response_id > 0
        /\ outbox[c][Len(outbox[c])] = ReplyFrame(locals[c].response_id, RepeatPrompt)
        /\ locals[c].caught = "none"
        /\ grievances = <<>>

\* the reply frames sent on connection c, in the order they were sent
Replies(c) == SelectSeq(outbox[c], IsReply)

\* the turn events that wait unread on connection c, in arrival order; the
\* platform numbers them in the order it sends them
Waiting(c) ==
    SelectSeq(inbox[c], LAMBDA f : IsTurnEvent(f) /\ "response_id" \in DOMAIN f)

\* C17: on a connection the reply frames go out in the order in which their
\* response_required frames arrived (their response_ids increase, and every
\* frame still unread is newer than every turn answered or in progress), and
\* the history follows the same order: it alternates the reply of one turn
\* with the user text of the next, and its assistant entries are the texts of
\* the reply frames in the order sent.
C17_RepliesInArrivalOrder ==
    \A c \in Conns :
        LET replies == Replies(c)
            waiting == Waiting(c)
        IN  /\ \A i, j \in 1..Len(replies) :
                   i < j => replies[i].response_id < replies[j].response_id
            /\ \A i, j \in 1..Len(waiting) :
                   i < j => waiting[i].response_id < waiting[j].response_id
            /\ \A i \in 1..Len(waiting) :
                   /\ waiting[i].response_id > locals[c].response_id
                   /\ \A j \in 1..Len(replies) :
                          replies[j].response_id < waiting[i].response_id
            /\ (Connected(c) /\ Has(call_id[c]))
               => LET h == CONVERSATION_HISTORY[call_id[c]]
                  IN  /\ \A i \in 1..Len(h) :
                             h[i].role = IF i % 2 = 1 THEN "assistant" ELSE "user"
                      /\ \A k \in 1..Len(replies) :
                             2 * k - 1 <= Len(h)
                                 => h[2 * k - 1].content = replies[k].content

\* two turn events have been answered in their order: the replies 0, 1, 2 are
\* out and the history holds greeting, user, reply, user, reply
C17_Witness ==
    \E c \in Conns :
        /\ pc[c] = "receive"
        /\ Has(call_id[c])
        /\ Len(Replies(c)) = 3
        /\ Replies(c)[2].response_id = 1
        /\ Replies(c)[3].response_id = 2
        /\ Len(CONVERSATION_HISTORY[call_id[c]]) = 5
        /\ CONVERSATION_HISTORY[call_id[c]][2].content
               # CONVERSATION_HISTORY[call_id[c]][4].content

\* the frame connection c is about to read is none of the two frames the
\* handler expects in the shape it expects
AtUnexpectedFrame(c) ==
    /\ pc[c] = "receive"
    /\ inbox[c] # <<>>
    /\ ~IsPing(Head(inbox[c]))
    /\ ~(IsTurnEvent(Head(inbox[c])) /\ Readable(Head(inbox[c])))

\* C18: an inbound frame of unexpected shape (an unknown interaction_type, a
\* response_required frame without response_id, a transcript item that is
\* not an object) is dropped: reading it takes the frame off the connection,
\* sends nothing, leaves the handler reading, and leaves the session of the
\* call in the store with its history as it was.
C18_UnexpectedFrameDropped ==
    [][\A c \in Conns :
          (AtUnexpectedFrame(c) /\ Has(call_id[c]) /\ Len(inbox'[c]) < Len(inbox[c]))
          => /\ pc'[c] = "receive"
             /\ inbox'[c] = Tail(inbox[c])
             /\ outbox'[c] = outbox[c]
             /\ call_id[c] \in DOMAIN CONVERSATION_HISTORY'
             /\ CONVERSATION_HISTORY'[call_id[c]] = CONVERSATION_HISTORY[call_id[c]]
      ]_vars

\* the step completes one push of the broadcast of connection c
PushDone(c) ==
    /\ pc[c] = "broadcast"
    /\ locals'[c].pushed = locals[c].pushed + 1

\* the step is a push of the broadcast of connection c that raised: the
\* observer pushed to is dropped from the list of the hub
PushFailed(c) ==
    /\ PushDone(c)
    /\ active_connections' # active_connections

\* C19: the NEW_GRIEVANCE broadcast of a record is issued only after the
\* insert of that record has committed (while the broadcast runs, at each of
\* its pushes and when it returns, the record is in the table), and no step,
\* in particular no push that fails and no end of the handler during the
\* broadcast, removes or changes a committed record.
C19_BroadcastAfterCommit ==
    [][/\ Len(grievances') >= Len(grievances)
       /\ SubSeq(grievances', 1, Len(grievances)) = grievances
       /\ broadcasts' # broadcasts
          => /\ Len(broadcasts') = Len(broadcasts) + 1
             /\ broadcasts'[Len(broadcasts')].event = "NEW_GRIEVANCE"
             /\ broadcasts'[Len(broadcasts')].ticket_id \in TicketIds
             /\ grievances' = grievances
       /\ \A c \in Conns :
            /\ pc'[c] = "broadcast"
               => \E i \in 1..Len(grievances') :
                      /\ grievances'[i].ticket_id = locals'[c].ticket_id
                      /\ grievances'[i].call_id = call_id[c]
            /\ PushDone(c)
               => /\ locals[c].ticket_id \in TicketIds
                  /\ grievances' = grievances
      ]_vars

\* a broadcast has returned after its push to a dashboard raised: the
\* dashboard was dropped from the list, and the record and its event are there
C19_Witness ==
    /\ \E o \in Observers :
          observers[o] = "open" /\ o \notin Elems(active_connections)
    /\ Len(grievances) = 1
    /\ Len(broadcasts) = 1
    /\ broadcasts[1].ticket_id = grievances[1].ticket_id

\* a push of the broadcast of connection c is in progress
Pushing(c) ==
    /\ pc[c] = "broadcast"
    /\ locals[c].pushed < Len(locals[c].connections)

\* C20: broadcast copies the list of observers in the step in which it holds
\* the lock and has released the lock before its first push: while a
\* broadcast is at its pushes the lock is free, a dashboard that is still to
\* come can be connected and listed, and a listed dashboard can be
\* disconnected and removed.
C20_LockFreeDuringPushes ==
    [][\A c \in Conns :
          /\ (pc[c] = "tools" /\ pc'[c] = "broadcast")
             => /\ lock = "free"
                /\ locals'[c].connections = active_connections
                /\ locals'[c].pushed = 0
                /\ active_connections' = active_connections
          /\ pc'[c] = "broadcast"
             => /\ lock' = "free"
                /\ locals'[c].connections =
                       IF pc[c] = "broadcast"
                       THEN locals[c].connections ELSE active_connections
          /\ pc[c] = "broadcast"
             => /\ \A o \in Observers :
                       (observers[o] = "new" /\ budget > 0)
                           => ENABLED manager_connect(o)
                /\ \A o \in Observers :
                       observers[o] = "open" => ENABLED manager_disconnect(o)
      ]_vars

\* the push to the dashboard of the snapshot is still in progress and another
\* dashboard, which is not in the snapshot, has connected and is listed
C20_Witness ==
    \E c \in Conns :
        /\ Pushing(c)
        /\ locals[c].pushed = 0
        /\ lock = "free"
        /\ \E o \in Observers :
              /\ o \in Elems(active_connections)
              /\ o \notin Elems(locals[c].connections)
        /\ \E o \in Elems(locals[c].connections) : o \in Elems(active_connections)

\* the pushes of the event of ticket_id that went to observer o
PushesTo(o, ticket_id) ==
    {i \in 1..Len(pushes) : pushes[i].to = o /\ pushes[i].ticket_id = ticket_id}

\* the broadcast of connection c returns to the handler
BroadcastReturns(c) == pc[c] = "broadcast" /\ pc'[c] = "tools"

\* C21: when a push to an observer fails during a broadcast, that observer
\* (and no other) is removed from the list of the hub, the broadcast goes on
\* with the next observer of its snapshot, so that when it returns every
\* observer of the snapshot has been pushed the event exactly once; no
\* observer is ever pushed the same event twice, and the failure does not
\* reach the caller: the handler stays in the broadcast, its text is not
\* turned into the apology, and the broadcast returns normally.
C21_FailedPushDropsObserver ==
    [][/\ \A c \in Conns :
            /\ PushDone(c)
               => LET connection == locals[c].connections[locals[c].pushed + 1]
                      push == pushes'[Len(pushes')]
                  IN  /\ pushes' = Append(pushes, push)
                      /\ push.to = connection
                      /\ push.ticket_id = locals[c].ticket_id
                      /\ ~push.ok => connection \notin Elems(active_connections')
                      /\ push.ok => active_connections' = active_connections
                      /\ \A o \in Observers \ {connection} :
                             o \in Elems(active_connections')
                                 <=> o \in Elems(active_connections)
                      /\ pc'[c] = "broadcast"
                      /\ locals'[c].spoken_text = locals[c].spoken_text
                      /\ locals'[c].caught = locals[c].caught
            /\ BroadcastReturns(c)
               => /\ \A o \in Elems(locals[c].connections) :
                         Cardinality(PushesTo(o, locals[c].ticket_id)) = 1
                  /\ locals'[c].spoken_text = Registered(locals[c].ticket_id)
       /\ \A i, j \in 1..Len(pushes') :
            (pushes'[i].to = pushes'[j].to
                /\ pushes'[i].ticket_id = pushes'[j].ticket_id) => i = j
      ]_vars

\* a broadcast to two dashboards has returned: the push to the first raised
\* and it was dropped from the list, the second was pushed the same event
\* once and is still listed
C21_Witness ==
    /\ Len(broadcasts) = 1
    /\ Len(pushes) = 2
    /\ ~pushes[1].ok
    /\ pushes[2].ok
    /\ pushes[1].to # pushes[2].to
    /\ pushes[1].ticket_id = broadcasts[1].ticket_id
    /\ pushes[2].ticket_id = broadcasts[1].ticket_id
    /\ pushes[1].to \notin Elems(active_connections)
    /\ pushes[2].to \in Elems(active_connections)
    /\ \E c \in Conns : pc[c] = "replied"
                        /\ locals[c].spoken_text = Registered(broadcasts[1].ticket_id)

\* the step reads the keepalive frame at the head of connection c
PingRead(c) ==
    /\ pc[c] = "receive"
    /\ inbox[c] # <<>>
    /\ IsPing(Head(inbox[c]))
    /\ FrameRead(c)

\* C22: handling a ping_pong frame sends exactly one frame, a ping_pong frame
\* with the timestamp of the frame read, and nothing else happens: the
\* session store and the history are unchanged, the handler stays reading
\* with its locals untouched (no call of the context provider or of the
\* reasoning service is started), no row is written and nothing is broadcast
\* or pushed.
C22_PingEchoOnly ==
    [][\A c \in Conns :
          PingRead(c)
          => /\ outbox'[c] = Append(outbox[c],
                    [interaction_type |-> "ping_pong",
                     timestamp |-> Head(inbox[c]).timestamp])
             /\ CONVERSATION_HISTORY' = CONVERSATION_HISTORY
             /\ pc' = pc
             /\ locals' = locals
             /\ grievances' = grievances
             /\ broadcasts' = broadcasts
             /\ pushes' = pushes
      ]_vars

\* two keepalive frames with different timestamps have been echoed in their
\* order and the history still holds the greeting only
C22_Witness ==
    \E c \in Conns :
        /\ pc[c] = "receive"
        /\ inbox[c] = <<>>
        /\ outbox[c] = << ReplyFrame(0, Greeting),
                          [interaction_type |-> "ping_pong", timestamp |-> 12],
                          [interaction_type |-> "ping_pong", timestamp |-> 11] >>
        /\ Has(call_id[c])
        /\ CONVERSATION_HISTORY[call_id[c]] = << Entry("assistant", Greeting) >>

\* C23: for two connections with different call_ids, no step of the handler
\* of one of them (accepting the connection, the greeting, a turn, the trim
\* of the history, the teardown) changes the other call's entry of the
\* session store: the entry stays present or absent as it was, and the
\* history in it stays as it was.
C23_OtherCallUntouched ==
    [][\A c, d \in Conns :
          ( /\ c # d
            /\ call_id[c] # NoCall
            /\ call_id'[d] # call_id[c]
            /\ HandlerStepOf(d) )
          => /\ call_id[c] \in DOMAIN CONVERSATION_HISTORY' <=> Has(call_id[c])
             /\ Has(call_id[c])
                => CONVERSATION_HISTORY'[call_id[c]] = CONVERSATION_HISTORY[call_id[c]]
      ]_vars

\* the history of call A has been trimmed to 18 entries in a turn made while
\* call B was in the store, and call B then ended: call B never held more than
\* its greeting and call A still has its session
C23_Witness ==
    /\ pc["w1"] = "receive"
    /\ call_id["w2"] = "B"
    /\ pc["w2"] = "closed"
    /\ outbox["w2"] = << ReplyFrame(0, Greeting) >>
    /\ ~Has("B")
    /\ Has("A")
    /\ Len(CONVERSATION_HISTORY["A"]) = HistoryKeep
    /\ Len(outbox["w1"]) = WarmTurns + 3

\* the step appends the reply of the turn of connection c to the history
ReplyAppended(c) == pc[c] = "replied" /\ pc'[c] = "receive"

\* the last entry of a history
Last(h) == h[Len(h)]

\* C24: in every turn that sends a reply frame, the step that sends it leaves
\* the history alone, and the assistant entry appended afterwards carries
\* exactly the content of that frame (the text after the tool loop's
\* override and after the fallback), the frame being the last one sent on
\* the connection and carrying the response_id of the turn; no other step of
\* a turn appends an assistant entry.
C24_HistoryHoldsSentText ==
    [][\A c \in Conns :
          /\ ReplySent(c)
             => /\ CONVERSATION_HISTORY' = CONVERSATION_HISTORY
                /\ SentFrame(c).response_id = locals[c].response_id
          /\ ReplyAppended(c)
             => LET sent == outbox[c][Len(outbox[c])]
                    h == CONVERSATION_HISTORY[call_id[c]]
                    after == CONVERSATION_HISTORY'[call_id[c]]
                IN  /\ outbox'[c] = outbox[c]
                    /\ IsReply(sent)
                    /\ sent.response_id = locals[c].response_id
                    /\ after = LimitHistory(Append(h, Entry("assistant", sent.content)))
                    /\ Last(after) = Entry("assistant", sent.content)
          /\ ( /\ pc[c] \in TurnPositions
               /\ Has(call_id[c])
               /\ call_id[c] \in DOMAIN CONVERSATION_HISTORY'
               /\ CONVERSATION_HISTORY'[call_id[c]] # CONVERSATION_HISTORY[call_id[c]] )
             => ReplyAppended(c)
      ]_vars

\* a turn that registered a complaint has ended: the confirmation with the
\* ticket_id was sent as its reply and is the last entry of the history, after
\* the utterance of the turn
C24_Witness ==
    \E c \in Conns :
        /\ pc[c] = "receive"
        /\ Has(call_id[c])
        /\ Len(grievances) = 1
        /\ LET h == CONVERSATION_HISTORY[call_id[c]]
               sent == outbox[c][Len(outbox[c])]
           IN  /\ IsReply(sent)
               /\ sent.content = Registered(grievances[1].ticket_id)
               /\ Last(h) = Entry("assistant", sent.content)
               /\ h[Len(h) - 1].role = "user"

\* the fixed affirmation list
Affirmations ==
    { <<"y","e","s">>, <<"y","e","a","h">>, <<"y","e","p">>,
      <<"p","l","e","a","s","e">>, <<"g","o"," ","a","h","e","a","d">>,
      <<"c","o","n","f","i","r","m">>, <<"s","u","r","e">>,
      <<"o","k","a","y">>, <<"o","k">> }

\* text t holds word w at some position
Contains(t, w) ==
    \E at \in 0..(Len(t) - Len(w)) : \A n \in 1..Len(w) : t[at + n] = w[n]

\* C25: the utterance of a turn is the content, stripped, of the last user
\* item of the transcript of the frame read; the user_confirmed flag handed
\* to the reasoning service in that turn is true exactly when the lower-cased
\* utterance contains a word of the affirmation list as a substring; it is
\* computed anew in every turn from that utterance alone and stays as
\* computed while the reasoning service is awaited.
C25_ConfirmationFlag ==
    [][\A c \in Conns :
          /\ (pc[c] = "receive" /\ pc'[c] = "context")
             => LET transcript == Head(inbox[c]).transcript
                IN  \E i \in 1..Len(transcript) :
                        /\ transcript[i].role = "user"
                        /\ \A j \in (i + 1)..Len(transcript) :
                               transcript[j].role # "user"
                        /\ locals'[c].user_text = strip(transcript[i].content)
          /\ (pc[c] = "context" /\ pc'[c] = "reasoning")
             => /\ locals'[c].user_text = locals[c].user_text
                /\ locals'[c].user_confirmed
                       <=> \E w \in Affirmations :
                               Contains(lower(locals[c].user_text), w)
          /\ (pc[c] = "reasoning" /\ pc'[c] \in {"reasoning", "tools"})
             => locals'[c].user_confirmed = locals[c].user_confirmed
      ]_vars

\* the second turn of a call waits on the reasoning service with the flag
\* false, its utterance being "no", after a first turn whose utterance "OK"
\* was a confirmation
C25_Witness ==
    \E c \in Conns :
        /\ pc[c] = "reasoning"
        /\ ~locals[c].user_confirmed
        /\ locals[c].user_text = <<"n","o">>
        /\ Has(call_id[c])
        /\ Len(CONVERSATION_HISTORY[call_id[c]]) = 4
        /\ CONVERSATION_HISTORY[call_id[c]][2] = Entry("user", <<"O","K">>)
        /\ CONVERSATION_HISTORY[call_id[c]][4] = Entry("user", <<"n","o">>)

\* C26: the context block get_context returns is never longer than the cap of
\* 1200 characters, the separators between the chunks included.
C26_ContextWithinCap ==
    context # NotReturned => context.length <= MAX_CHARS

\* the roles of a history are user and assistant in strict alternation
Alternates(h) ==
    /\ \A i \in 1..Len(h) : h[i].role \in {"user", "assistant"}
    /\ \A i \in 1..(Len(h) - 1) : h[i].role # h[i + 1].role

\* a history as it stands between two turns
AtTurnBoundary(h) ==
    /\ h # <<>>
    /\ Alternates(h)
    /\ Last(h).role = "assistant"

\* C27: when the reasoning service is invoked, the last entry of the history
\* handed to it is the user utterance of the current turn; and whenever the
\* handler stands between two turns, in particular right after the append
\* that trimmed the history, the roles of the history alternate strictly
\* between user and assistant and its last entry is an assistant entry.
C27_HistoryShape ==
    [][\A c \in Conns :
          /\ (pc[c] = "context" /\ pc'[c] = "reasoning")
             => /\ call_id[c] \in DOMAIN CONVERSATION_HISTORY'
                /\ Last(CONVERSATION_HISTORY'[call_id[c]])
                       = Entry("user", locals'[c].user_text)
                /\ locals'[c].user_text # <<>>
                /\ Alternates(CONVERSATION_HISTORY'[call_id[c]])
          /\ pc[c] = "receive"
             => /\ Has(call_id[c])
                /\ AtTurnBoundary(CONVERSATION_HISTORY[call_id[c]])
          /\ pc'[c] = "receive"
             => /\ call_id[c] \in DOMAIN CONVERSATION_HISTORY'
                /\ AtTurnBoundary(CONVERSATION_HISTORY'[call_id[c]])
      ]_vars

\* two turns have been answered after the long-call state and the second
\* append trimmed the history: it holds the 18 entries kept, a user entry
\* first and the reply of the last turn last, the utterances of both turns
\* among them
C27_Witness ==
    \E c \in Conns :
        /\ pc[c] = "receive"
        /\ Has(call_id[c])
        /\ Len(Replies(c)) = WarmTurns + 3
        /\ LET h == CONVERSATION_HISTORY[call_id[c]]
           IN  /\ Len(h) = HistoryKeep
               /\ h[1].role = "user"
               /\ Last(h) = Entry("assistant", Replies(c)[WarmTurns + 3].content)
               /\ h[HistoryKeep - 1].content \in {strip(TextOK), strip(TextNo)}
               /\ h[HistoryKeep - 3].content \in {strip(TextOK), strip(TextNo)}

\* C28: a broadcast pushes its event only to the observers of the snapshot it
\* took: the list it iterates over stays as copied whatever connects or
\* disconnects during the pushes, every push goes to the next element of
\* that copy, an observer that is listed only after the snapshot is not in
\* the copy, and an observer that has not yet connected has received nothing.
C28_PushesFollowSnapshot ==
    [][/\ \A c \in Conns :
            /\ (pc[c] = "broadcast" /\ pc'[c] = "broadcast")
               => locals'[c].connections = locals[c].connections
            /\ pc[c] = "broadcast"
               => \A o \in Observers :
                      (o \notin Elems(active_connections)
                          /\ o \in Elems(active_connections'))
                          => o \notin Elems(locals'[c].connections)
            /\ PushDone(c)
               => /\ Len(pushes') = Len(pushes) + 1
                  /\ pushes'[Len(pushes')].to =
                         locals[c].connections[locals[c].pushed + 1]
                  /\ pushes'[Len(pushes')].ticket_id = locals[c].ticket_id
       /\ pushes' # pushes => \E c \in Conns : PushDone(c)
       /\ \A o \in Observers :
            observers'[o] = "new"
                => \A i \in 1..Len(pushes') : pushes'[i].to # o
      ]_vars

\* a broadcast has returned after one push, to the dashboard that was listed
\* when it started; the other dashboard, which connected during that push,
\* is listed and has received nothing
C28_Witness ==
    /\ Len(broadcasts) = 1
    /\ Len(pushes) = 1
    /\ pushes[1].to = "d1"
    /\ pushes[1].ok
    /\ pushes[1].ticket_id = broadcasts[1].ticket_id
    /\ active_connections = <<"d1", "d2">>
    /\ observers["d2"] = "open"

\* the /ws endpoint handler of dashboard o returns in this step
EndpointReturns(o) == observers[o] = "open" /\ observers'[o] = "closed"

\* C29: when the connection of a dashboard observer closes, the observer is
\* not in the list of the hub once its /ws endpoint handler has returned; and
\* when the observer was already absent from the list (a failed push had
\* dropped it), the disconnect leaves the list as it was.
C29_ClosedObserverRemoved ==
    [][\A o \in Observers :
          EndpointReturns(o)
          => /\ o \notin Elems(active_connections')
             /\ o \notin Elems(active_connections)
                => active_connections' = active_connections
      ]_vars

\* the highest of the three levels whose threshold the open complaints of a
\* row have reached, NULL when none
LevelReached(row) ==
    IF row.open_complaints >= row.severe_threshold THEN "SEVERE"
    ELSE IF row.open_complaints >= row.critical_threshold THEN "CRITICAL"
    ELSE IF row.open_complaints >= row.warning_threshold THEN "WARNING"
    ELSE "NULL"

\* C30: after any sequence of registrations and resolutions in an area, the
\* row of the area has is_hotspot true exactly when its open_complaints is at
\* or above its warning threshold, and its hotspot_level is the highest of
\* WARNING, CRITICAL, SEVERE whose threshold is met, none when not flagged.
C30_HotspotFlagFollowsCount ==
    \A a \in Areas :
        area_hotspots[a] # NoRow
            => /\ area_hotspots[a].is_hotspot
                   <=> area_hotspots[a].open_complaints
                           >= area_hotspots[a].warning_threshold
               /\ area_hotspots[a].hotspot_level = LevelReached(area_hotspots[a])

====
